---- MODULE Spec2Model ----
(***************************************************************************)
(* Model of shopify_api's REST query path (src/rest/mod.rs):               *)
(*   Shopify::rest_query  = utils::retry_async(10, shopify_rest_query, ..) *)
(*   shopify_rest_query   = send, read body, serde_json::from_str,         *)
(*                          utils::read_json_tree, serde_json::to_string,  *)
(*                          serde_json::from_str::<ReturnType>             *)
(* JSON text is a sequence of lexical tokens; serde_json::Value is a       *)
(* tagged record.  Parsing and serialising are computed token by token.    *)
(***************************************************************************)
EXTENDS Integers, Sequences, FiniteSets, TLC

(***************************************************************************)
(* serde_json::Value                                                       *)
(***************************************************************************)
VNull == [t |-> "null"]

VBool(b) == [t |-> "bool", b |-> b]

VNum(n) == [t |-> "num", n |-> n]

VStr(s) == [t |-> "str", s |-> s]

VSeq(items) == [t |-> "seq", items |-> items]

VMap(entries) == [t |-> "map", entries |-> entries]

EmptyMap == [k \in {} |-> VNull]

(***************************************************************************)
(* Lexical tokens of JSON text.  A string literal token is the quoted      *)
(* string; Unquote gives its content and Quote the literal of a content.   *)
(***************************************************************************)
Unquote ==
    ("\"Hello\"" :> "Hello" @@ "\"id\"" :> "id" @@ "\"product\"" :> "product"
     @@ "\"products\"" :> "products" @@ "\"title\"" :> "title")

Quote ==
    ("Hello" :> "\"Hello\"" @@ "id" :> "\"id\"" @@ "product" :> "\"product\""
     @@ "products" :> "\"products\"" @@ "title" :> "\"title\"")

\* The known strings in byte order, the order in which serde_json's map
\* (a BTreeMap) iterates its keys.
KeyOrder == <<"Hello", "id", "product", "products", "title">>

NumVal == ("-1" :> -1 @@ "0" :> 0 @@ "1" :> 1 @@ "2" :> 2)

NumStr == (-1 :> "-1" @@ 0 :> "0" @@ 1 :> "1" @@ 2 :> "2")

(***************************************************************************)
(* serde_json::from_str::<Value>: recursive descent over the tokens.       *)
(***************************************************************************)
ParseOk(v, next) == [ok |-> TRUE, v |-> v, next |-> next]

ParseFail(diag) == [ok |-> FALSE, diag |-> diag]

RECURSIVE SkipWs(_, _)
SkipWs(toks, i) ==
    IF i <= Len(toks) /\ toks[i] = " " THEN SkipWs(toks, i + 1) ELSE i

RECURSIVE ParseValue(_, _)
RECURSIVE ParseElems(_, _, _)
RECURSIVE ParseMembers(_, _, _)

ParseValue(toks, i) ==
    LET j == SkipWs(toks, i) IN
    IF j > Len(toks) THEN ParseFail("EOF while parsing a value")
    ELSE LET tk == toks[j] IN
         CASE tk = "null" -> ParseOk(VNull, j + 1)
           [] tk = "true" -> ParseOk(VBool(TRUE), j + 1)
           [] tk = "false" -> ParseOk(VBool(FALSE), j + 1)
           [] tk \in DOMAIN NumVal -> ParseOk(VNum(NumVal[tk]), j + 1)
           [] tk \in DOMAIN Unquote -> ParseOk(VStr(Unquote[tk]), j + 1)
           [] tk = "[" ->
                LET k == SkipWs(toks, j + 1) IN
                IF k > Len(toks) THEN ParseFail("EOF while parsing a list")
                ELSE IF toks[k] = "]" THEN ParseOk(VSeq(<<>>), k + 1)
                ELSE ParseElems(toks, k, <<>>)
           [] tk = "{" ->
                LET k == SkipWs(toks, j + 1) IN
                IF k <= Len(toks) /\ toks[k] = "}"
                THEN ParseOk(VMap(EmptyMap), k + 1)
                ELSE ParseMembers(toks, k, EmptyMap)
           [] OTHER -> ParseFail("expected value")

ParseElems(toks, i, acc) ==
    LET r == ParseValue(toks, i) IN
    IF ~r.ok THEN r
    ELSE LET j == SkipWs(toks, r.next)
             items == Append(acc, r.v) IN
         IF j > Len(toks) THEN ParseFail("EOF while parsing a list")
         ELSE IF toks[j] = "]" THEN ParseOk(VSeq(items), j + 1)
         ELSE IF toks[j] = "," THEN
              LET k == SkipWs(toks, j + 1) IN
              IF k <= Len(toks) /\ toks[k] = "]"
              THEN ParseFail("trailing comma")
              ELSE ParseElems(toks, k, items)
         ELSE ParseFail("expected , or ]")

ParseMembers(toks, i, acc) ==
    IF i > Len(toks) THEN ParseFail("EOF while parsing an object")
    ELSE IF toks[i] \notin DOMAIN Unquote THEN ParseFail("key must be a string")
    ELSE LET c == SkipWs(toks, i + 1) IN
         IF c > Len(toks) THEN ParseFail("EOF while parsing an object")
         ELSE IF toks[c] # ":" THEN ParseFail("expected :")
         ELSE LET r == ParseValue(toks, c + 1) IN
              IF ~r.ok THEN r
              ELSE LET j == SkipWs(toks, r.next)
                       \* a repeated key replaces the earlier entry
                       entries == (Unquote[toks[i]] :> r.v) @@ acc IN
                   IF j > Len(toks) THEN ParseFail("EOF while parsing an object")
                   ELSE IF toks[j] = "}" THEN ParseOk(VMap(entries), j + 1)
                   ELSE IF toks[j] = "," THEN
                        LET k == SkipWs(toks, j + 1) IN
                        IF k <= Len(toks) /\ toks[k] = "}"
                        THEN ParseFail("trailing comma")
                        ELSE ParseMembers(toks, k, entries)
                   ELSE ParseFail("expected , or }")

\* variant: text after the value is not looked at
from_str_prefix(text) ==
    LET r == ParseValue(text, 1) IN
    IF ~r.ok THEN [ok |-> FALSE, diag |-> r.diag] ELSE [ok |-> TRUE, v |-> r.v]

\* serde_json::from_str::<serde_json::Value>(&body)
from_str(text) ==
    LET r == ParseValue(text, 1) IN
    IF ~r.ok THEN [ok |-> FALSE, diag |-> r.diag]
    ELSE IF SkipWs(text, r.next) <= Len(text)
         THEN [ok |-> FALSE, diag |-> "trailing characters"]
         ELSE [ok |-> TRUE, v |-> r.v]

(***************************************************************************)
(* serde_json::to_string(&Value): compact text, map keys in key order.     *)
(***************************************************************************)
\* variant: only the first key is written
SortedKeysFirst(entries) ==
    LET keys == SelectSeq(KeyOrder, LAMBDA k : k \in DOMAIN entries) IN
    IF keys = <<>> THEN <<>> ELSE <<keys[1]>>

SortedKeys(entries) == SelectSeq(KeyOrder, LAMBDA k : k \in DOMAIN entries)

RECURSIVE to_string(_)
RECURSIVE JoinItems(_, _)
RECURSIVE JoinEntries(_, _, _)

to_string(v) ==
    CASE v.t = "null" -> <<"null">>
      [] v.t = "bool" -> IF v.b THEN <<"true">> ELSE <<"false">>
      [] v.t = "num" -> <<NumStr[v.n]>>
      [] v.t = "str" -> <<Quote[v.s]>>
      [] v.t = "seq" -> <<"[">> \o JoinItems(v.items, 1) \o <<"]">>
      [] v.t = "map" ->
           <<"{">> \o JoinEntries(v.entries, SortedKeys(v.entries), 1) \o <<"}">>

JoinItems(items, i) ==
    IF i > Len(items) THEN <<>>
    ELSE (IF i > 1 THEN <<",">> ELSE <<>>)
         \o to_string(items[i]) \o JoinItems(items, i + 1)

JoinEntries(entries, keys, i) ==
    IF i > Len(keys) THEN <<>>
    ELSE (IF i > 1 THEN <<",">> ELSE <<>>)
         \o <<Quote[keys[i]], ":">> \o to_string(entries[keys[i]])
         \o JoinEntries(entries, keys, i + 1)

(***************************************************************************)
(* Result<T, E> and ShopifyAPIError                                        *)
(***************************************************************************)
Ok(v) == [ok |-> TRUE, v |-> v]

Err(e) == [ok |-> FALSE, e |-> e]

\* the error `?` makes of a reqwest::Error
ErrTransport(cause) == [kind |-> "Transport", cause |-> cause]

ErrResponseBroken == [kind |-> "ResponseBroken"]

\* variant: a parse failure reported as NotWantedJsonFormat
ErrJsonParseErrorAsFormat(diag) == [kind |-> "NotWantedJsonFormat", text |-> <<diag>>]

ErrJsonParseError(diag) == [kind |-> "JsonParseError", diag |-> diag]

\* variant: an unwanted format reported as a parse failure
ErrNotWantedJsonFormatAsParse(text) == [kind |-> "JsonParseError", diag |-> "unexpected"]

ErrNotWantedJsonFormat(text) == [kind |-> "NotWantedJsonFormat", text |-> text]

(***************************************************************************)
(* ReturnType: DeserializeOwned.  "Value" is serde_json::Value, "Product"  *)
(* is the derived struct { id: u64, title: String } of the doc example.    *)
(***************************************************************************)
ReturnTypes == {"Value", "Product"}

IsU64(v) == v.t = "num" /\ v.n >= 0

\* <ReturnType as Deserialize>::deserialize driven by a parsed JSON value.
\* A derived struct accepts a map (unknown fields ignored, every field
\* required) or a sequence of exactly its fields in declaration order.
Deserialize(T, v) ==
    IF T = "Value" THEN Ok(v)
    ELSE IF v.t = "map" THEN
         IF /\ "id" \in DOMAIN v.entries
            /\ "title" \in DOMAIN v.entries
            /\ IsU64(v.entries["id"])
            /\ v.entries["title"].t = "str"
         THEN Ok([id |-> v.entries["id"].n, title |-> v.entries["title"].s])
         ELSE Err("invalid map")
    ELSE IF v.t = "seq" THEN
         IF /\ Len(v.items) = 2
            /\ IsU64(v.items[1])
            /\ v.items[2].t = "str"
         THEN Ok([id |-> v.items[1].n, title |-> v.items[2].s])
         ELSE Err("invalid sequence")
    ELSE Err("invalid type")

\* serde_json::from_str::<ReturnType>(&json)
from_str_as(T, text) ==
    LET p == from_str(text) IN
    IF ~p.ok THEN Err(p.diag) ELSE Deserialize(T, p.v)

(***************************************************************************)
(* Inputs: request descriptors, extraction paths, access tokens, and what  *)
(* the transport can answer.                                               *)
(***************************************************************************)
\* ShopifyAPIRestType
Endpoints == {"Get", "Post", "Put", "Delete"}

\* ReadJsonTreeSteps
Key(k) == [step |-> "Key", key |-> k, index |-> 0]

Index(i) == [step |-> "Index", key |-> "", index |-> i]

\* Option<Vec<ReadJsonTreeSteps>>
None == [some |-> FALSE, steps |-> <<>>]

Some(steps) == [some |-> TRUE, steps |-> steps]

Finders ==
    {None,
     Some(<<>>),
     Some(<<Key("products"), Index(0)>>),
     Some(<<Key("products"), Index(0), Key("title")>>),
     Some(<<Key("id"), Index(0)>>),
     Some(<<Index(0)>>)}

\* Shopify.api_key; the second one holds a line feed
ApiKeys == {"shpat_0123", "shpat\n0123"}

\* str::parse::<HeaderValue>() is Ok: no control character in the string
ValidHeaderValue(key) == key = "shpat_0123"

Q(s) == Quote[s]

BodyProducts ==
    <<"{", Q("products"), ":", "[", "{", Q("id"), ":", "1", ",",
      Q("title"), ":", Q("Hello"), "}", "]", "}">>

BodyNoProducts == <<"{", Q("products"), ":", "[", "]", "}">>

BodyNotJson == <<"not", " ", "json">>

BodyEmptyMap == <<"{", "}">>

BodySpaced ==
    <<"{", " ", Q("title"), " ", ":", " ", Q("Hello"), ",", " ",
      Q("id"), ":", "2", " ", "}">>

BodyPair == <<"[", "1", ",", Q("Hello"), "]">>

BodyNegativeId ==
    <<"{", Q("products"), ":", "[", "{", Q("id"), ":", "-1", ",",
      Q("title"), ":", Q("Hello"), "}", "]", "}">>

BodyTruncated == <<"{", Q("products"), ":", "[">>

BodyRepeatedKey ==
    <<"{", Q("id"), ":", "1", ",", Q("title"), ":", Q("Hello"), ",",
      Q("id"), ":", "2", "}">>

BodyTrailing == <<"{", "}", " ", "{", "}">>

Bodies ==
    {BodyProducts, BodyNoProducts, BodyNotJson, BodyEmptyMap, BodySpaced,
     BodyPair, BodyNegativeId, BodyTruncated, BodyRepeatedKey, BodyTrailing}

Statuses == {200, 500}

\* what req.send().await yields: an error, or a response whose body may
\* or may not be readable as text
SendErr(cause) == [sent |-> FALSE, cause |-> cause, status |-> 0,
                   readable |-> FALSE, body |-> <<>>]

Response(status, readable, body) ==
    [sent |-> TRUE, cause |-> "", status |-> status,
     readable |-> readable, body |-> body]

TransportResults ==
    {SendErr(c) : c \in {"connect", "timeout"}}
    \cup {Response(s, TRUE, b) : s \in Statuses, b \in Bodies}
    \cup {Response(s, FALSE, <<>>) : s \in Statuses}

(***************************************************************************)
(* Bounds                                                                  *)
(***************************************************************************)
\* variant: a ceiling of nine
RestQueryAttemptsNine == 10 - 1

\* the attempt ceiling rest_query hands to retry_async
RestQueryAttempts == 10

\* largest max_attempts tried when retry_async is called with any ceiling
MaxAttempts == 3

Calls == {1, 2}

(***************************************************************************)
(* State.  Every variable but shopify and active is indexed by the call.   *)
(***************************************************************************)
VARIABLES
    shopify,        \* the Shopify client: [api_key]
    active,         \* the calls that the caller makes
    pc,             \* where the call is
    endpoint,       \* rest_query: &ShopifyAPIRestType
    json_finder,    \* json_finder: &Option<Vec<ReadJsonTreeSteps>>
    return_type,    \* the ReturnType the call is instantiated with
    max_attempts,   \* retry_async's attempt ceiling
    attempt,        \* retry_async: number of the running attempt
    res,            \* shopify_rest_query: res
    body,           \* shopify_rest_query: body
    json,           \* shopify_rest_query: json (the parsed root)
    nav,            \* read_json_tree: current value and position
    narrowed,       \* shopify_rest_query: json after the match
    text,           \* shopify_rest_query: json after to_string
    outcome,        \* what the attempt returned
    retried,        \* what retry_async returned
    result,         \* what rest_query returned
    caller,         \* history: what the caller passed to rest_query
    canned,         \* the one answer of a canned transport, if it is canned
    snap,           \* history: an earlier call, its arguments and its result
    awaits,         \* history: the .await points the running attempt reached
    completed,      \* history: attempts of this call that have returned
    invoked,        \* history: entries into shopify_rest_query of this call
    sent,           \* history: send() calls of this call
    stages,         \* history: stages the running attempt went through
    firstOk         \* history: number of the first attempt that returned Ok

vars ==
    <<shopify, active, pc, endpoint, json_finder, return_type, max_attempts,
      attempt, res, body, json, nav, narrowed, text, outcome, retried, result,
      caller, canned, snap, awaits, completed, invoked, sent, stages, firstOk>>

NoValue == [t |-> "none"]

NoResult == [ok |-> FALSE, e |-> [kind |-> "none"]]

NoRes == [sent |-> FALSE, cause |-> "none", status |-> 0,
          readable |-> FALSE, body |-> <<>>]

NoNav == [cur |-> NoValue, pos |-> 0, evaluated |-> <<>>, ok |-> TRUE,
          done |-> FALSE]

\* the locals of one attempt, as they are when shopify_rest_query is entered
AttemptLocals(c) ==
    /\ res' = [res EXCEPT ![c] = NoRes]
    /\ body' = [body EXCEPT ![c] = <<>>]
    /\ json' = [json EXCEPT ![c] = NoValue]
    /\ nav' = [nav EXCEPT ![c] = NoNav]
    /\ narrowed' = [narrowed EXCEPT ![c] = NoValue]
    /\ text' = [text EXCEPT ![c] = <<>>]
    /\ outcome' = [outcome EXCEPT ![c] = NoResult]
    /\ stages' = [stages EXCEPT ![c] = <<>>]
    /\ awaits' = [awaits EXCEPT ![c] = <<>>]

Passed(e, jf, T) == [endpoint |-> e, json_finder |-> jf, return_type |-> T]

NoSnap == [taken |-> FALSE, args |-> Passed("Get", None, "Value"),
           result |-> NoResult, invoked |-> 0, between |-> FALSE]

InitCalls ==
    /\ pc = [c \in Calls |-> "idle"]
    /\ endpoint = [c \in Calls |-> "Get"]
    /\ json_finder = [c \in Calls |-> None]
    /\ return_type = [c \in Calls |-> "Value"]
    /\ max_attempts = [c \in Calls |-> 0]
    /\ attempt = [c \in Calls |-> 0]
    /\ res = [c \in Calls |-> NoRes]
    /\ body = [c \in Calls |-> <<>>]
    /\ json = [c \in Calls |-> NoValue]
    /\ nav = [c \in Calls |-> NoNav]
    /\ narrowed = [c \in Calls |-> NoValue]
    /\ text = [c \in Calls |-> <<>>]
    /\ outcome = [c \in Calls |-> NoResult]
    /\ retried = [c \in Calls |-> NoResult]
    /\ result = [c \in Calls |-> NoResult]
    /\ invoked = [c \in Calls |-> 0]
    /\ sent = [c \in Calls |-> 0]
    /\ stages = [c \in Calls |-> <<>>]
    /\ firstOk = [c \in Calls |-> 0]
    /\ caller = [c \in Calls |-> Passed("Get", None, "Value")]
    /\ awaits = [c \in Calls |-> <<>>]
    /\ completed = [c \in Calls |-> 0]
    /\ snap = NoSnap

\* one caller at a time, a transport free to answer anything
Init ==
    /\ shopify \in [api_key : ApiKeys]
    /\ active = {1}
    /\ canned = NoRes
    /\ InitCalls

(***************************************************************************)
(* Shopify::rest_query and utils::retry_async                              *)
(***************************************************************************)
\* variant: the bundle is built without the caller's path
BundleNoFinder(e, jf, T) == Passed(e, None, T)

\* let args = (self, rest_query, json_finder): the bundle every attempt gets
Bundle(e, jf, T) == Passed(e, jf, T)

\* variant: the attempt counter lives on from the call before
FirstAttemptKept(n) == IF n = 0 THEN 1 ELSE n

\* retry_async starts counting its attempts
FirstAttempt(n) == 1

\* retry_async(max, shopify_rest_query::<T>, &args) is entered
StartRetry(c, e, jf, T, max) ==
    /\ c \in active
    /\ pc[c] \in {"idle", "done"}
    /\ caller' = [caller EXCEPT ![c] = Passed(e, jf, T)]
    /\ snap' = IF snap.taken /\ snap.args # Passed(e, jf, T)
               THEN [snap EXCEPT !.between = TRUE] ELSE snap
    /\ completed' = [completed EXCEPT ![c] = 0]
    /\ endpoint' = [endpoint EXCEPT ![c] = Bundle(e, jf, T).endpoint]
    /\ json_finder' = [json_finder EXCEPT ![c] = Bundle(e, jf, T).json_finder]
    /\ return_type' = [return_type EXCEPT ![c] = Bundle(e, jf, T).return_type]
    /\ max_attempts' = [max_attempts EXCEPT ![c] = max]
    /\ attempt' = [attempt EXCEPT ![c] = FirstAttempt(@)]
    /\ pc' = [pc EXCEPT ![c] = "prepare"]
    /\ AttemptLocals(c)
    /\ retried' = [retried EXCEPT ![c] = NoResult]
    /\ result' = [result EXCEPT ![c] = NoResult]
    /\ invoked' = [invoked EXCEPT ![c] = 0]
    /\ sent' = [sent EXCEPT ![c] = 0]
    /\ firstOk' = [firstOk EXCEPT ![c] = 0]
    /\ UNCHANGED <<shopify, active, canned>>

\* rest_query(&self, rest_query, json_finder): the ceiling is 10
Call(c) ==
    \E e \in Endpoints, jf \in Finders, T \in ReturnTypes :
        StartRetry(c, e, jf, T, RestQueryAttempts)

\* retry_async called with any ceiling max_attempts >= 1
CallRetry(c) ==
    \E e \in Endpoints, jf \in Finders, T \in ReturnTypes, max \in 1..MaxAttempts :
        StartRetry(c, e, jf, T, max)

\* variant: the last attempt is never made
ExhaustedEarly(n, max) == n + 1 >= max

\* retry_async: no attempt is left once n attempts have been made
Exhausted(n, max) == n >= max

\* variant: an Ok does not end the loop
ReturnsNowOnlyAtEnd(o, n, max) == Exhausted(n, max)

\* retry_async stops after an attempt that returned Ok, or after the last one
ReturnsNow(o, n, max) == o.ok \/ Exhausted(n, max)

\* retry_async, after the operation returned: return an Ok at once, run
\* the next attempt after an Err unless this was the last one, whose Err
\* is returned
RetryDecide(c) ==
    /\ pc[c] = "retry"
    /\ IF ReturnsNow(outcome[c], attempt[c], max_attempts[c])
       THEN /\ retried' = [retried EXCEPT ![c] = outcome[c]]
            /\ pc' = [pc EXCEPT ![c] = "return"]
            /\ UNCHANGED <<attempt, res, body, json, nav, narrowed, text,
                           outcome, stages, awaits>>
       ELSE /\ attempt' = [attempt EXCEPT ![c] = @ + 1]
            /\ pc' = [pc EXCEPT ![c] = "prepare"]
            /\ AttemptLocals(c)
            /\ UNCHANGED retried
    /\ UNCHANGED <<shopify, active, endpoint, json_finder, return_type,
                   max_attempts, caller, canned, snap, completed, result,
                   invoked, sent, firstOk>>

\* rest_query: `let response_json = ...await?; Ok(response_json)`
QuestionMark(r) == IF r.ok THEN Ok(r.v) ELSE Err(r.e)

Return(c) ==
    /\ pc[c] = "return"
    /\ result' = [result EXCEPT ![c] = QuestionMark(retried[c])]
    /\ pc' = [pc EXCEPT ![c] = "done"]
    /\ UNCHANGED <<shopify, active, endpoint, json_finder, return_type,
                   max_attempts, caller, canned, snap, awaits, completed,
                   attempt, res, body, json, nav, narrowed,
                   text, outcome, retried, invoked, sent, stages, firstOk>>

(***************************************************************************)
(* shopify_rest_query: one attempt                                         *)
(***************************************************************************)
CallArgs ==
    <<shopify, active, endpoint, json_finder, return_type, max_attempts,
      caller, canned, snap>>

\* variant: the returned value lands in a slot all calls share
FinishShared(c, r) ==
    /\ outcome' = [d \in Calls |-> r]
    /\ firstOk' = [firstOk EXCEPT ![c] = IF r.ok /\ @ = 0 THEN invoked[c] ELSE @]
    /\ completed' = [completed EXCEPT ![c] = @ + 1]
    /\ pc' = [pc EXCEPT ![c] = "retry"]

\* the attempt returns r to retry_async
Finish(c, r) ==
    /\ outcome' = [outcome EXCEPT ![c] = r]
    /\ firstOk' = [firstOk EXCEPT ![c] = IF r.ok /\ @ = 0 THEN invoked[c] ELSE @]
    /\ completed' = [completed EXCEPT ![c] = @ + 1]
    /\ pc' = [pc EXCEPT ![c] = "retry"]

\* variant: only the first .await of an attempt suspends
AwaitFirstOnly(c, point) ==
    awaits' = [awaits EXCEPT ![c] = IF @ = <<>> THEN <<point>> ELSE @]

\* the attempt reaches an .await: it waits there for the transport
Await(c, point) == awaits' = [awaits EXCEPT ![c] = Append(@, point)]

Stage(c, name) == stages' = [stages EXCEPT ![c] = Append(@, name)]

\* client and headers are built (the access token must parse as a header
\* value, or unwrap() panics), the request is built from the endpoint and
\* send() is called
Dispatch(c) ==
    /\ pc[c] = "prepare"
    /\ invoked' = [invoked EXCEPT ![c] = @ + 1]
    /\ IF ValidHeaderValue(shopify.api_key)
       THEN /\ sent' = [sent EXCEPT ![c] = @ + 1]
            /\ Stage(c, "dispatch")
            /\ Await(c, "send")
            /\ pc' = [pc EXCEPT ![c] = "await_send"]
       ELSE /\ pc' = [pc EXCEPT ![c] = "panicked"]
            /\ UNCHANGED <<sent, stages, awaits>>
    /\ UNCHANGED <<CallArgs, attempt, res, body, json, nav, narrowed, text,
                   outcome, retried, result, firstOk, completed>>

\* req.send().await? completes with one of the answers, a response or an
\* error; with a response the attempt goes on to res.text().await
SendDoneFrom(c, answers) ==
    /\ pc[c] = "await_send"
    /\ \E r \in answers :
          /\ res' = [res EXCEPT ![c] = r]
          /\ IF r.sent
             THEN /\ pc' = [pc EXCEPT ![c] = "await_text"]
                  /\ Await(c, "text")
                  /\ UNCHANGED <<outcome, firstOk, completed>>
             ELSE /\ Finish(c, Err(ErrTransport(r.cause)))
                  /\ UNCHANGED awaits
    /\ UNCHANGED <<CallArgs, attempt, body, json, nav, narrowed, text,
                   retried, result, invoked, sent, stages>>

SendDone(c) == SendDoneFrom(c, TransportResults)

\* variant: a response with an error status is refused, as error_for_status
\* would
ReadBodyStatus(c) ==
    /\ pc[c] = "await_text"
    /\ Stage(c, "read")
    /\ IF res[c].status >= 400
       THEN /\ Finish(c, Err(ErrTransport("status")))
            /\ UNCHANGED body
       ELSE IF res[c].readable
       THEN /\ body' = [body EXCEPT ![c] = res[c].body]
            /\ pc' = [pc EXCEPT ![c] = "parse"]
            /\ UNCHANGED <<outcome, firstOk, completed>>
       ELSE /\ Finish(c, Err(ErrResponseBroken))
            /\ UNCHANGED body
    /\ UNCHANGED <<CallArgs, attempt, res, json, nav, narrowed, text,
                   retried, result, invoked, sent, awaits>>

\* res.text().await completes
ReadBody(c) ==
    /\ pc[c] = "await_text"
    /\ Stage(c, "read")
    /\ IF res[c].readable
       THEN /\ body' = [body EXCEPT ![c] = res[c].body]
            /\ pc' = [pc EXCEPT ![c] = "parse"]
            /\ UNCHANGED <<outcome, firstOk, completed>>
       ELSE /\ Finish(c, Err(ErrResponseBroken))
            /\ UNCHANGED body
    /\ UNCHANGED <<CallArgs, attempt, res, json, nav, narrowed, text,
                   retried, result, invoked, sent, awaits>>

\* serde_json::from_str(&body).map_err(JsonParseError)?
ParseBody(c) ==
    /\ pc[c] = "parse"
    /\ Stage(c, "parse")
    /\ LET p == from_str(body[c]) IN
       IF p.ok
       THEN /\ json' = [json EXCEPT ![c] = p.v]
            /\ pc' = [pc EXCEPT ![c] = "navigate"]
            /\ UNCHANGED <<outcome, firstOk, completed>>
       ELSE /\ Finish(c, Err(ErrJsonParseError(p.diag)))
            /\ UNCHANGED json
    /\ UNCHANGED <<CallArgs, attempt, res, body, nav, narrowed, text,
                   retried, result, invoked, sent, awaits>>

\* match json_finder: None => &json, Some => utils::read_json_tree is called
Navigate(c) ==
    /\ pc[c] = "navigate"
    /\ Stage(c, "navigate")
    /\ IF json_finder[c].some
       THEN /\ nav' = [nav EXCEPT ![c] = [cur |-> json[c], pos |-> 0,
                                          evaluated |-> <<>>, ok |-> TRUE,
                                          done |-> FALSE]]
            /\ pc' = [pc EXCEPT ![c] = "read_json_tree"]
            /\ UNCHANGED narrowed
       ELSE /\ narrowed' = [narrowed EXCEPT ![c] = json[c]]
            /\ pc' = [pc EXCEPT ![c] = "encode"]
            /\ UNCHANGED nav
    /\ UNCHANGED <<CallArgs, attempt, res, body, json, text, outcome,
                   retried, result, invoked, sent, firstOk, awaits, completed>>

\* one step of a path on a value: Key on a Mapping that has the key, Index
\* on a Sequence that has the position (0-based)
Lookup(v, st) ==
    IF st.step = "Key"
    THEN IF v.t = "map" /\ st.key \in DOMAIN v.entries
         THEN Ok(v.entries[st.key]) ELSE Err("NotFound")
    ELSE IF v.t = "seq" /\ st.index + 1 <= Len(v.items)
         THEN Ok(v.items[st.index + 1]) ELSE Err("NotFound")

\* variant: a step that does not resolve is skipped
TreeStepSkipping(nv, steps) ==
    IF nv.pos = Len(steps) THEN [nv EXCEPT !.done = TRUE]
    ELSE LET r == Lookup(nv.cur, steps[nv.pos + 1]) IN
         [cur |-> IF r.ok THEN r.v ELSE nv.cur,
          pos |-> nv.pos + 1,
          evaluated |-> Append(nv.evaluated, nv.pos + 1),
          ok |-> TRUE,
          done |-> FALSE]

\* variant: an empty path is not found
TreeStepNoEmptyPath(nv, steps) ==
    IF Len(steps) = 0 THEN [nv EXCEPT !.ok = FALSE, !.done = TRUE]
    ELSE IF nv.pos = Len(steps) THEN [nv EXCEPT !.done = TRUE]
    ELSE LET r == Lookup(nv.cur, steps[nv.pos + 1]) IN
         [cur |-> IF r.ok THEN r.v ELSE nv.cur,
          pos |-> IF r.ok THEN nv.pos + 1 ELSE nv.pos,
          evaluated |-> Append(nv.evaluated, nv.pos + 1),
          ok |-> r.ok,
          done |-> ~r.ok]

\* utils::read_json_tree, one turn of its walk: after the last step the
\* current value is the answer; otherwise the next step is applied to the
\* current value, and a step that does not resolve ends the walk
TreeStep(nv, steps) ==
    IF nv.pos = Len(steps) THEN [nv EXCEPT !.done = TRUE]
    ELSE LET r == Lookup(nv.cur, steps[nv.pos + 1]) IN
         [cur |-> IF r.ok THEN r.v ELSE nv.cur,
          pos |-> IF r.ok THEN nv.pos + 1 ELSE nv.pos,
          evaluated |-> Append(nv.evaluated, nv.pos + 1),
          ok |-> r.ok,
          done |-> ~r.ok]

ReadJsonTreeStep(c) ==
    /\ pc[c] = "read_json_tree"
    /\ LET nv == TreeStep(nav[c], json_finder[c].steps) IN
       /\ nav' = [nav EXCEPT ![c] = nv]
       /\ pc' = [pc EXCEPT ![c] = IF nv.done THEN "navigated" ELSE "read_json_tree"]
    /\ UNCHANGED <<CallArgs, attempt, res, body, json, narrowed, text, outcome,
                   retried, result, invoked, sent, stages, firstOk, awaits,
                   completed>>

\* variant: the root is kept
SelectedRoot(root, found) == root

\* the arm `Ok(v) => v` of the match on read_json_tree's result
Selected(root, found) == found

\* variant: the error carries the value the walk had reached
NavigateReturnReached(c) ==
    /\ pc[c] = "navigated"
    /\ IF nav[c].ok
       THEN /\ narrowed' = [narrowed EXCEPT ![c] = Selected(json[c], nav[c].cur)]
            /\ pc' = [pc EXCEPT ![c] = "encode"]
            /\ UNCHANGED <<outcome, firstOk, completed>>
       ELSE /\ Finish(c, Err(ErrNotWantedJsonFormat(to_string(nav[c].cur))))
            /\ UNCHANGED narrowed
    /\ UNCHANGED <<CallArgs, attempt, res, body, json, nav, text,
                   retried, result, invoked, sent, stages, awaits>>

\* Ok(v) => v, Err(_) => return Err(NotWantedJsonFormat(json.to_string()))
NavigateReturn(c) ==
    /\ pc[c] = "navigated"
    /\ IF nav[c].ok
       THEN /\ narrowed' = [narrowed EXCEPT ![c] = Selected(json[c], nav[c].cur)]
            /\ pc' = [pc EXCEPT ![c] = "encode"]
            /\ UNCHANGED <<outcome, firstOk, completed>>
       ELSE /\ Finish(c, Err(ErrNotWantedJsonFormat(to_string(json[c]))))
            /\ UNCHANGED narrowed
    /\ UNCHANGED <<CallArgs, attempt, res, body, json, nav, text,
                   retried, result, invoked, sent, stages, awaits>>

\* serde_json::to_string(json) of a Value: its map keys are strings and it
\* holds no non-finite number, so the serialiser has nothing to refuse
to_string_result(v) == Ok(to_string(v))

Encode(c) ==
    /\ pc[c] = "encode"
    /\ Stage(c, "encode")
    /\ LET r == to_string_result(narrowed[c]) IN
       IF r.ok
       THEN /\ text' = [text EXCEPT ![c] = r.v]
            /\ pc' = [pc EXCEPT ![c] = "decode"]
            /\ UNCHANGED <<outcome, firstOk, completed>>
       ELSE /\ Finish(c, Err(ErrNotWantedJsonFormat(to_string(narrowed[c]))))
            /\ UNCHANGED text
    /\ UNCHANGED <<CallArgs, attempt, res, body, json, nav, narrowed,
                   retried, result, invoked, sent, awaits>>

\* variant: the error carries the text of the whole parsed body
DecodeRootText(c) ==
    /\ pc[c] = "decode"
    /\ Stage(c, "decode")
    /\ LET r == from_str_as(return_type[c], text[c]) IN
       IF r.ok
       THEN Finish(c, Ok(r.v))
       ELSE Finish(c, Err(ErrNotWantedJsonFormat(to_string(json[c]))))
    /\ UNCHANGED <<CallArgs, attempt, res, body, json, nav, narrowed, text,
                   retried, result, invoked, sent, awaits>>

\* serde_json::from_str(&json): Ok(v) => Ok(v),
\* Err(_) => Err(NotWantedJsonFormat(json.to_string())), json the text
Decode(c) ==
    /\ pc[c] = "decode"
    /\ Stage(c, "decode")
    /\ LET r == from_str_as(return_type[c], text[c]) IN
       IF r.ok
       THEN Finish(c, Ok(r.v))
       ELSE Finish(c, Err(ErrNotWantedJsonFormat(text[c])))
    /\ UNCHANGED <<CallArgs, attempt, res, body, json, nav, narrowed, text,
                   retried, result, invoked, sent, awaits>>

\* the steps of an attempt but the answer of the transport
Stages(c) ==
    \/ Dispatch(c)
    \/ ReadBody(c)
    \/ ParseBody(c)
    \/ Navigate(c)
    \/ ReadJsonTreeStep(c)
    \/ NavigateReturn(c)
    \/ Encode(c)
    \/ Decode(c)

Attempt(c) ==
    \/ SendDone(c)
    \/ Stages(c)

Next ==
    \E c \in Calls :
        \/ Call(c)
        \/ Attempt(c)
        \/ RetryDecide(c)
        \/ Return(c)

Spec == Init /\ [][Next]_vars

\* retry_async under every ceiling 1..MaxAttempts
NextRetry ==
    \E c \in Calls :
        \/ CallRetry(c)
        \/ Attempt(c)
        \/ RetryDecide(c)
        \/ Return(c)

SpecRetry == Init /\ [][NextRetry]_vars

(***************************************************************************)
(* The same client against a canned transport: every send gets the one     *)
(* answer `canned`, the caller makes call after call, and at some return   *)
(* the call is remembered in `snap`.                                       *)
(***************************************************************************)
CannedResults ==
    {SendErr("connect"),
     Response(200, FALSE, <<>>),
     Response(200, TRUE, BodyProducts),
     Response(200, TRUE, BodyNoProducts),
     Response(200, TRUE, BodyNotJson),
     Response(500, TRUE, BodySpaced)}

SomeFinders == {None, Some(<<>>), Some(<<Key("products"), Index(0)>>)}

InitCanned ==
    /\ shopify \in [api_key : ApiKeys]
    /\ active = {1}
    /\ canned \in CannedResults
    /\ InitCalls

CallSome(c) ==
    \E e \in Endpoints, jf \in SomeFinders, T \in ReturnTypes :
        StartRetry(c, e, jf, T, RestQueryAttempts)

SendDoneCanned(c) == SendDoneFrom(c, {canned})

\* a call that returned is remembered
Snapshot(c) ==
    /\ pc[c] = "done"
    /\ ~snap.taken
    /\ snap' = [taken |-> TRUE, args |-> caller[c], result |-> result[c],
                invoked |-> invoked[c], between |-> FALSE]
    /\ UNCHANGED <<shopify, active, pc, endpoint, json_finder, return_type,
                   max_attempts, attempt, res, body, json, nav, narrowed, text,
                   outcome, retried, result, caller, canned, awaits, completed,
                   invoked, sent, stages, firstOk>>

NextCanned ==
    \E c \in Calls :
        \/ CallSome(c)
        \/ SendDoneCanned(c)
        \/ Stages(c)
        \/ RetryDecide(c)
        \/ Return(c)
        \/ Snapshot(c)

SpecCanned == InitCanned /\ [][NextCanned]_vars

(***************************************************************************)
(* Two calls on the same client at the same time, their steps interleaved  *)
(* in every way, with a few descriptors and a few answers.                 *)
(***************************************************************************)
FewEndpoints == {"Get", "Put"}

FewFinders == {None, Some(<<Key("products"), Index(0)>>)}

FewResults ==
    {SendErr("connect"),
     Response(200, TRUE, BodyProducts),
     Response(200, TRUE, BodyNoProducts)}

InitTwo ==
    /\ shopify \in [api_key : ApiKeys]
    /\ active = Calls
    /\ canned = NoRes
    /\ InitCalls

CallFew(c) ==
    \E e \in FewEndpoints, jf \in FewFinders :
        StartRetry(c, e, jf, "Product", RestQueryAttempts)

SendDoneFew(c) == SendDoneFrom(c, FewResults)

NextTwo ==
    \E c \in Calls :
        \/ CallFew(c)
        \/ SendDoneFew(c)
        \/ Stages(c)
        \/ RetryDecide(c)
        \/ Return(c)

SpecTwo == InitTwo /\ [][NextTwo]_vars

(***************************************************************************)
(* The same program when every transport call completes and the executor   *)
(* keeps polling the call: each step of a call that can be taken is taken. *)
(***************************************************************************)
LiveFinders == {None, Some(<<>>), Some(<<Key("products")>>)}

LiveResults ==
    {SendErr("timeout"),
     Response(200, FALSE, <<>>),
     Response(200, TRUE, BodyEmptyMap),
     Response(500, TRUE, BodyNotJson)}

CallLive(c) ==
    \E e \in FewEndpoints, jf \in LiveFinders, T \in ReturnTypes :
        StartRetry(c, e, jf, T, RestQueryAttempts)

SendDoneLive(c) == SendDoneFrom(c, LiveResults)

\* the steps the call takes by itself once it was made
Progress(c) == SendDoneLive(c) \/ Stages(c) \/ RetryDecide(c) \/ Return(c)

NextLive == \E c \in Calls : CallLive(c) \/ Progress(c)

SpecLive == Init /\ [][NextLive]_vars /\ \A c \in Calls : WF_vars(Progress(c))

(***************************************************************************)
(* Properties                                                              *)
(***************************************************************************)
Returned(c) == pc[c] \in {"return", "done"}

FailureKinds == {"Transport", "ResponseBroken", "JsonParseError", "NotWantedJsonFormat"}

\* C1: under every ceiling, when the attempts 1..k-1 fail and attempt k
\* succeeds, retry_async returns the value attempt k returned and the
\* operation has been entered exactly k times: none after the first Ok.
C1_ReturnsFirstSuccess ==
    \A c \in Calls :
        firstOk[c] # 0 =>
            /\ firstOk[c] <= max_attempts[c]
            /\ invoked[c] = firstOk[c]
            /\ pc[c] \in {"retry", "return", "done"}
            /\ outcome[c].ok
            /\ Returned(c) => retried[c] = outcome[c]

C1_Witness ==
    \E c \in Calls :
        /\ Returned(c)
        /\ max_attempts[c] = 3
        /\ firstOk[c] = 2
        /\ invoked[c] = 2
        /\ retried[c].ok

\* C2: under every ceiling, when every attempt fails the operation has been
\* entered exactly max_attempts times and retry_async returns the error of
\* the last of them.
C2_ReturnsLastError ==
    \A c \in Calls :
        (Returned(c) /\ firstOk[c] = 0) =>
            /\ invoked[c] = max_attempts[c]
            /\ ~outcome[c].ok
            /\ outcome[c].e.kind \in FailureKinds
            /\ retried[c] = outcome[c]

C2_Witness ==
    \E c \in Calls :
        /\ Returned(c)
        /\ firstOk[c] = 0
        /\ max_attempts[c] = 3
        /\ invoked[c] = 3
        /\ retried[c] = Err(ErrResponseBroken)

\* C3: rest_query enters the pipeline at most 10 times; a failed attempt
\* n < 10 is followed by the next attempt whatever its failure kind, and
\* after the 10th failed attempt the caller gets that attempt's error as is.
C3_StepAfterFailure(c) ==
    (pc[c] = "retry" /\ ~outcome[c].ok /\ pc'[c] # "retry") =>
        /\ outcome[c].e.kind \in FailureKinds
        /\ IF invoked[c] < 10
           THEN pc'[c] = "prepare" /\ invoked'[c] = invoked[c]
           ELSE pc'[c] = "return" /\ retried'[c] = outcome[c]

C3_State(c) ==
    /\ invoked[c] <= 10
    /\ pc[c] = "prepare" => invoked[c] < 10
    /\ (pc[c] = "done" /\ ~result[c].ok) =>
           /\ invoked[c] = 10
           /\ result[c] = outcome[c]
           /\ result[c].e.kind \in FailureKinds

C3_TenAttemptsAnyFailure ==
    /\ [](\A c \in Calls : C3_State(c))
    /\ [][\A c \in Calls : C3_StepAfterFailure(c)]_vars

C3_Witness ==
    \E c \in Calls :
        /\ pc[c] = "done"
        /\ invoked[c] = 10
        /\ result[c] = Err(ErrJsonParseError("expected value"))

(***************************************************************************)
(* What the properties compare the pipeline with: the value a path leads   *)
(* to, lookup by lookup, and the stage at which a response must fail.      *)
(***************************************************************************)
RECURSIVE ValueAt(_, _, _)
ValueAt(root, steps, i) ==
    IF i = 0 THEN Ok(root)
    ELSE LET before == ValueAt(root, steps, i - 1) IN
         IF before.ok THEN Lookup(before.v, steps[i]) ELSE before

Resolves(root, steps) == ValueAt(root, steps, Len(steps)).ok

FirstUnresolved(root, steps) ==
    CHOOSE k \in 1..Len(steps) :
        /\ ~ValueAt(root, steps, k).ok
        /\ \A j \in 0..(k - 1) : ValueAt(root, steps, j).ok

Ended(c) == pc[c] \in {"retry", "return", "done"}

GotBody(c) == res[c].sent /\ res[c].readable

Root(c) == from_str(res[c].body)

Target(c) ==
    IF json_finder[c].some
    THEN ValueAt(Root(c).v, json_finder[c].steps, Len(json_finder[c].steps)).v
    ELSE Root(c).v

FailingStage(c) ==
    IF ~res[c].sent THEN "dispatch"
    ELSE IF ~res[c].readable THEN "read"
    ELSE IF ~Root(c).ok THEN "parse"
    ELSE IF json_finder[c].some /\ ~Resolves(Root(c).v, json_finder[c].steps)
         THEN "navigate"
    ELSE IF ~Deserialize(return_type[c], Target(c)).ok THEN "decode"
    ELSE "none"

PipelineOrder == <<"dispatch", "read", "parse", "navigate", "encode", "decode">>

StageNumber ==
    ("dispatch" :> 1 @@ "read" :> 2 @@ "parse" :> 3 @@ "navigate" :> 4
     @@ "encode" :> 5 @@ "decode" :> 6)

StageKind ==
    ("dispatch" :> "Transport" @@ "read" :> "ResponseBroken"
     @@ "parse" :> "JsonParseError" @@ "navigate" :> "NotWantedJsonFormat"
     @@ "encode" :> "NotWantedJsonFormat" @@ "decode" :> "NotWantedJsonFormat")

\* C4: the stages of an attempt run in the order dispatch, read, parse,
\* navigate, encode, decode; the attempt ends at the first stage that fails
\* with that stage's error kind, and no later stage runs.
C4_FirstFailingStageDecides ==
    \A c \in Calls :
        /\ stages[c] = SubSeq(PipelineOrder, 1, Len(stages[c]))
        /\ Ended(c) =>
              LET st == FailingStage(c) IN
              IF st = "none"
              THEN outcome[c].ok /\ stages[c] = PipelineOrder
              ELSE /\ ~outcome[c].ok
                   /\ outcome[c].e.kind = StageKind[st]
                   /\ stages[c] = SubSeq(PipelineOrder, 1, StageNumber[st])

C4_Witness ==
    \E c \in Calls :
        /\ pc[c] = "retry"
        /\ stages[c] = PipelineOrder
        /\ outcome[c] = Err(ErrNotWantedJsonFormat(to_string(Target(c))))
        /\ json_finder[c].some

\* the canned bodies that are not JSON
NotJsonBodies == {BodyNotJson, BodyTruncated, BodyTrailing}

\* C5: an attempt whose body is not valid JSON ends with JsonParseError,
\* whatever the path and the return type, and read_json_tree is not run.
C5_InvalidBodyIsParseError ==
    \A c \in Calls :
        (Ended(c) /\ GotBody(c) /\ res[c].body \in NotJsonBodies) =>
            /\ ~outcome[c].ok
            /\ outcome[c].e.kind = "JsonParseError"
            /\ stages[c] = <<"dispatch", "read", "parse">>
            /\ nav[c] = NoNav

C5_Witness ==
    \E c \in Calls :
        /\ pc[c] = "done"
        /\ res[c].body = BodyNotJson
        /\ json_finder[c] = Some(<<Key("products"), Index(0)>>)
        /\ return_type[c] = "Product"
        /\ result[c] = Err(ErrJsonParseError("expected value"))

\* C6: when the body parses, the path resolves and the value at the path
\* deserialises, the attempt returns the deserialisation of exactly that
\* value; it is the call's first Ok and its last attempt, with one send per
\* attempt, and rest_query returns it.
C6_ReturnsValueAtPath ==
    \A c \in Calls :
        (/\ Ended(c) /\ GotBody(c) /\ Root(c).ok
         /\ json_finder[c].some
         /\ Resolves(Root(c).v, json_finder[c].steps)
         /\ Deserialize(return_type[c], Target(c)).ok) =>
            /\ outcome[c] = Ok(Deserialize(return_type[c], Target(c)).v)
            /\ firstOk[c] = invoked[c]
            /\ sent[c] = invoked[c]
            /\ pc[c] = "done" => result[c] = outcome[c]
            /\ (/\ res[c].body = BodyProducts
                /\ json_finder[c] = Some(<<Key("products"), Index(0)>>)
                /\ return_type[c] = "Product") =>
                   outcome[c] = Ok([id |-> 1, title |-> "Hello"])

C6_Witness ==
    \E c \in Calls :
        /\ pc[c] = "done"
        /\ endpoint[c] = "Get"
        /\ res[c].body = BodyProducts
        /\ json_finder[c] = Some(<<Key("products"), Index(0)>>)
        /\ return_type[c] = "Product"
        /\ invoked[c] = 1
        /\ sent[c] = 1
        /\ result[c] = Ok([id |-> 1, title |-> "Hello"])

\* C7: when the body parses but a step of the supplied path does not
\* resolve, the attempt fails with NotWantedJsonFormat and nothing is
\* decoded; rest_query returns that error when this was the last attempt.
C7_UnresolvedPathIsFormatError ==
    \A c \in Calls :
        (/\ Ended(c) /\ GotBody(c) /\ Root(c).ok
         /\ json_finder[c].some
         /\ ~Resolves(Root(c).v, json_finder[c].steps)) =>
            /\ ~outcome[c].ok
            /\ outcome[c].e.kind = "NotWantedJsonFormat"
            /\ stages[c] = <<"dispatch", "read", "parse", "navigate">>
            /\ pc[c] = "done" => (result[c] = outcome[c] /\ invoked[c] = 10)

C7_Witness ==
    \E c \in Calls :
        /\ pc[c] = "done"
        /\ res[c].body = BodyNoProducts
        /\ json_finder[c] = Some(<<Key("products"), Index(0)>>)
        /\ ~result[c].ok
        /\ result[c].e.kind = "NotWantedJsonFormat"

\* C8: with no path and serde_json::Value as return type the attempt
\* returns the value the body parsed to (writing it out and reading it back
\* changes nothing); a Delete answered with {} returns the empty map.
C8_RawValueRoundTrip ==
    \A c \in Calls :
        (/\ Ended(c) /\ GotBody(c) /\ Root(c).ok
         /\ ~json_finder[c].some
         /\ return_type[c] = "Value") =>
            /\ outcome[c] = Ok(Root(c).v)
            /\ pc[c] = "done" => result[c] = Ok(Root(c).v)
            /\ res[c].body = BodyEmptyMap => outcome[c] = Ok(VMap(EmptyMap))

C8_Witness ==
    \E c \in Calls :
        /\ pc[c] = "done"
        /\ endpoint[c] = "Delete"
        /\ json_finder[c] = None
        /\ return_type[c] = "Value"
        /\ res[c].body = BodyEmptyMap
        /\ result[c] = Ok(VMap(EmptyMap))

\* C9: read_json_tree evaluates the steps 1, 2, ... in order; when all
\* resolve it returns the value the lookups lead to, and when step k is the
\* first that does not resolve it fails having evaluated the steps 1..k only.
C9_NavigateLeftToRight ==
    \A c \in Calls :
        pc[c] \in {"read_json_tree", "navigated"} =>
            LET steps == json_finder[c].steps
                done == nav[c].evaluated IN
            /\ done = [i \in 1..Len(done) |-> i]
            /\ pc[c] = "navigated" =>
                  IF Resolves(json[c], steps)
                  THEN /\ nav[c].ok
                       /\ nav[c].cur = ValueAt(json[c], steps, Len(steps)).v
                       /\ Len(done) = Len(steps)
                  ELSE /\ ~nav[c].ok
                       /\ Len(done) = FirstUnresolved(json[c], steps)

C9_Witness ==
    \E c \in Calls :
        /\ pc[c] = "navigated"
        /\ Len(json_finder[c].steps) = 3
        /\ ~nav[c].ok
        /\ nav[c].evaluated = <<1, 2>>

\* what an attempt without a path returns for a send result and a type
OutcomeNoPath(r, T) ==
    IF ~r.sent THEN Err(ErrTransport(r.cause))
    ELSE IF ~r.readable THEN Err(ErrResponseBroken)
    ELSE LET p == from_str(r.body) IN
         IF ~p.ok THEN Err(ErrJsonParseError(p.diag))
         ELSE LET d == Deserialize(T, p.v) IN
              IF d.ok THEN Ok(d.v)
              ELSE Err(ErrNotWantedJsonFormat(to_string(p.v)))

\* C10: read_json_tree on an empty path succeeds with the root, evaluating
\* nothing; so an attempt with Some(empty path) ends as an attempt with
\* None does on the same send result and return type.
C10_EmptyPathIsRoot ==
    \A c \in Calls :
        /\ (pc[c] = "navigated" /\ json_finder[c].steps = <<>>) =>
              (nav[c].ok /\ nav[c].cur = json[c] /\ nav[c].evaluated = <<>>)
        /\ (Ended(c) /\ json_finder[c].steps = <<>>) =>
              outcome[c] = OutcomeNoPath(res[c], return_type[c])

C10_Witness ==
    \E c \in Calls :
        /\ pc[c] = "done"
        /\ json_finder[c] = Some(<<>>)
        /\ nav[c].done
        /\ nav[c].cur = json[c]
        /\ result[c].ok
        /\ return_type[c] = "Product"

\* C11: against a transport that always answers the same, a call returns
\* what an earlier call with the same descriptor, path and return type
\* returned, after as many attempts, whatever calls were made in between.
C11_SameCallSameResult ==
    \A c \in Calls :
        (pc[c] = "done" /\ snap.taken /\ caller[c] = snap.args) =>
            /\ result[c] = snap.result
            /\ invoked[c] = snap.invoked

C11_Witness ==
    \E c \in Calls :
        /\ pc[c] = "done"
        /\ snap.taken
        /\ snap.between
        /\ caller[c] = snap.args
        /\ result[c] = snap.result
        /\ result[c] = Ok([id |-> 1, title |-> "Hello"])

\* C12: every attempt, for every descriptor and every client configuration
\* (any access token), ends with a decoded value or with one of the four
\* classified failures, and in no other way.
C12_AttemptEndsClassified ==
    \A c \in Calls :
        /\ pc[c] # "panicked"
        /\ Ended(c) => (outcome[c].ok \/ outcome[c].e.kind \in FailureKinds)

\* C13: within a call the attempts follow one another: at most one is in
\* progress, the next one starts only when the one before has returned an
\* error, and the running call works on the descriptor, path, return type
\* and client that the caller passed, which no step changes.
C13_State(c) ==
    /\ invoked[c] - completed[c] \in {0, 1}
    /\ pc[c] # "idle" =>
          Passed(endpoint[c], json_finder[c], return_type[c]) = caller[c]

C13_Step(c) ==
    /\ invoked'[c] = invoked[c] + 1 => completed[c] = invoked[c]
    /\ (pc'[c] = "prepare" /\ pc[c] \notin {"prepare", "idle", "done"}) =>
          (pc[c] = "retry" /\ ~outcome[c].ok /\ completed[c] = invoked[c])
    /\ pc[c] \notin {"idle", "done"} =>
          /\ caller'[c] = caller[c]
          /\ endpoint'[c] = endpoint[c]
          /\ json_finder'[c] = json_finder[c]
          /\ return_type'[c] = return_type[c]
    /\ shopify' = shopify

C13_SequentialSameArguments ==
    /\ [](\A c \in Calls : C13_State(c))
    /\ [][\A c \in Calls : C13_Step(c)]_vars

C13_Witness ==
    \E c \in Calls :
        /\ pc[c] = "await_send"
        /\ invoked[c] = 3
        /\ completed[c] = 2
        /\ caller[c] = Passed("Put", Some(<<Key("products"), Index(0)>>), "Product")
        /\ json_finder[c] = Some(<<Key("products"), Index(0)>>)

\* everything a call holds
CallVars(c) ==
    <<pc[c], endpoint[c], json_finder[c], return_type[c], max_attempts[c],
      attempt[c], res[c], body[c], json[c], nav[c], narrowed[c], text[c],
      outcome[c], retried[c], result[c], caller[c], awaits[c], completed[c],
      invoked[c], sent[c], stages[c], firstOk[c]>>

\* what an attempt returns for a send result, a path and a return type
AttemptOutcome(r, jf, T) ==
    IF ~r.sent THEN Err(ErrTransport(r.cause))
    ELSE IF ~r.readable THEN Err(ErrResponseBroken)
    ELSE LET p == from_str(r.body) IN
         IF ~p.ok THEN Err(ErrJsonParseError(p.diag))
         ELSE IF jf.some /\ ~Resolves(p.v, jf.steps)
              THEN Err(ErrNotWantedJsonFormat(to_string(p.v)))
         ELSE LET target == IF jf.some
                            THEN ValueAt(p.v, jf.steps, Len(jf.steps)).v
                            ELSE p.v
                  d == Deserialize(T, target) IN
              IF d.ok THEN Ok(d.v)
              ELSE Err(ErrNotWantedJsonFormat(to_string(target)))

\* C14: two calls running at the same time do not touch each other: a step
\* of one leaves everything of the other as it is, and each call's attempts
\* and result are what its own answers give when it runs alone.
C14_Step ==
    /\ shopify' = shopify
    /\ \A c \in Calls :
          (CallVars(c))' # CallVars(c) =>
              \A d \in Calls \ {c} : (CallVars(d))' = CallVars(d)

C14_State(c) ==
    /\ Ended(c) =>
          outcome[c] = AttemptOutcome(res[c], json_finder[c], return_type[c])
    /\ pc[c] = "done" =>
          /\ result[c] = outcome[c]
          /\ sent[c] = invoked[c]
          /\ IF result[c].ok THEN invoked[c] = firstOk[c] ELSE invoked[c] = 10

C14_CallsDoNotInterfere ==
    /\ [](\A c \in Calls : C14_State(c))
    /\ [][C14_Step]_vars

C14_Witness ==
    /\ pc[1] = "done"
    /\ result[1] = Ok([id |-> 1, title |-> "Hello"])
    /\ invoked[1] = 2
    /\ pc[2] = "await_text"
    /\ invoked[2] = 5
    /\ res[2].body = BodyNoProducts

\* C15: when every transport call completes, every call that was started
\* returns, with an Ok or after its 10th failed attempt and not before; and
\* while a transport call has not completed the call only waits: it returns
\* nothing and starts no attempt until the answer is there.
C15_Waiting(c) ==
    /\ (pc[c] = "await_send" /\ (CallVars(c))' # CallVars(c)) =>
          (res'[c] \in LiveResults /\ invoked'[c] = invoked[c])
    /\ (pc[c] = "await_text" /\ (CallVars(c))' # CallVars(c)) =>
          (stages'[c] = Append(stages[c], "read") /\ invoked'[c] = invoked[c])

C15_ReturnsIffTransportCompletes ==
    /\ \A c \in Calls : (pc[c] = "prepare") ~> (pc[c] = "done")
    /\ [](\A c \in Calls :
            pc[c] = "done" => (result[c].ok \/ invoked[c] = 10))
    /\ [][\A c \in Calls : C15_Waiting(c)]_vars

\* C16: when the body parses and the path does not resolve, the
\* NotWantedJsonFormat error carries the text of the whole value the body
\* parsed to, written out again, and not that of the value the walk had
\* reached before the step that failed.
C16_NavigationFailureCarriesRoot ==
    \A c \in Calls :
        (/\ Ended(c) /\ GotBody(c) /\ Root(c).ok
         /\ json_finder[c].some
         /\ ~Resolves(Root(c).v, json_finder[c].steps)) =>
            /\ outcome[c] = Err(ErrNotWantedJsonFormat(to_string(Root(c).v)))
            /\ pc[c] = "done" => result[c] = outcome[c]

\* the walk had gone one step down, to the empty list, when it failed
C16_Witness ==
    \E c \in Calls :
        /\ pc[c] = "done"
        /\ res[c].body = BodyNoProducts
        /\ json_finder[c] = Some(<<Key("products"), Index(0), Key("title")>>)
        /\ nav[c].pos = 1
        /\ nav[c].cur = VSeq(<<>>)
        /\ result[c] = Err(ErrNotWantedJsonFormat(BodyNoProducts))

\* C17 as stated: an attempt suspends at one point only, the wait for the
\* transport's response.
C17_OneSuspensionPoint ==
    \A c \in Calls : \A i \in 1..Len(awaits[c]) : awaits[c][i] = "send"

\* C17 amended: an attempt suspends at exactly two points, the wait for the
\* transport's response and, once a response is there, the wait for its
\* body text; parsing, navigating, re-encoding and decoding do not suspend.
C17_State(c) ==
    /\ awaits[c] \in {<<>>, <<"send">>, <<"send", "text">>}
    /\ pc[c] = "await_send" => awaits[c] = <<"send">>
    /\ pc[c] = "await_text" => awaits[c] = <<"send", "text">>
    /\ Ended(c) => awaits[c] = IF res[c].sent THEN <<"send", "text">>
                               ELSE <<"send">>

C17_Step(c) ==
    (awaits'[c] # awaits[c] /\ awaits'[c] # <<>>) =>
        /\ pc[c] \in {"prepare", "await_send"}
        /\ pc'[c] \in {"await_send", "await_text"}

C17_TwoSuspensionPoints ==
    /\ [](\A c \in Calls : C17_State(c))
    /\ [][\A c \in Calls : C17_Step(c)]_vars

C17_Witness ==
    \E c \in Calls :
        /\ pc[c] = "done"
        /\ result[c].ok
        /\ stages[c] = PipelineOrder
        /\ awaits[c] = <<"send", "text">>

\* C18: when the path resolves (or none is given) and the value does not
\* decode as the return type, the NotWantedJsonFormat error carries the text
\* the decoder was given, the selected value written out; with a path that
\* selects less than the whole body this is not the text a navigation
\* failure on the same response carries.
C18_DecodeFailureCarriesSelected ==
    \A c \in Calls :
        (/\ Ended(c) /\ GotBody(c) /\ Root(c).ok
         /\ json_finder[c].some => Resolves(Root(c).v, json_finder[c].steps)
         /\ ~Deserialize(return_type[c], Target(c)).ok) =>
            /\ outcome[c] = Err(ErrNotWantedJsonFormat(to_string(Target(c))))
            /\ Target(c) # Root(c).v =>
                  outcome[c].e.text # to_string(Root(c).v)
            /\ pc[c] = "done" => result[c] = outcome[c]

C18_Witness ==
    \E c \in Calls :
        /\ pc[c] = "done"
        /\ res[c].body = BodyNegativeId
        /\ json_finder[c] = Some(<<Key("products"), Index(0)>>)
        /\ return_type[c] = "Product"
        /\ result[c] = Err(ErrNotWantedJsonFormat(
               <<"{", Q("id"), ":", "-1", ",", Q("title"), ":", Q("Hello"), "}">>))

\* C19: every attempt sends the request once, so a call has sent as many
\* requests as it has made attempts; a Post or Put that was answered every
\* time and never gave a value has been sent 10 times when the call returns.
C19_SendsEqualAttempts ==
    \A c \in Calls :
        /\ sent[c] = invoked[c]
        /\ (pc[c] = "done" /\ ~result[c].ok) => sent[c] = 10

\* C20: once the transport answered, what the attempt returns is decided by
\* the body, the path and the return type: it is the same under every
\* status, and an error status with a body that decodes gives the value at
\* once.
C20_StatusIsNotLookedAt ==
    \A c \in Calls :
        (Ended(c) /\ res[c].sent) =>
            /\ \A s \in Statuses :
                  outcome[c] = AttemptOutcome([res[c] EXCEPT !.status = s],
                                              json_finder[c], return_type[c])
            /\ outcome[c].ok \/ outcome[c].e.kind # "Transport"
            /\ (pc[c] = "done" /\ outcome[c].ok) =>
                  (result[c] = outcome[c] /\ firstOk[c] = invoked[c])

C20_Witness ==
    \E c \in Calls :
        /\ pc[c] = "done"
        /\ res[c].status = 500
        /\ res[c].body = BodyProducts
        /\ invoked[c] = 1
        /\ result[c] = Ok([id |-> 1, title |-> "Hello"])

====
